---- MODULE Spec2Model ----
(***************************************************************************)
(* Model of src/lib/phoneAdapter.js: the adapter between the phone-object  *)
(* representation and libphonenumber's PhoneNumber (the "oracle").         *)
(*                                                                         *)
(* libphonenumber itself is an external collaborator.  Its answers are     *)
(* inputs of the model: every answer the adapter reads is drawn from a     *)
(* small set, and every call the adapter makes is recorded with its        *)
(* arguments.  isLeadingZeroPossible is answered from the loaded metadata  *)
(* (the variable leadingZeroCodes), because two conversions of the same    *)
(* number must see the same answer.                                        *)
(***************************************************************************)
EXTENDS Integers, Sequences, FiniteSets

\* ------------------------------------------------------------------ bounds
MaxZeros == 2      \* most leading zeros of a nationalNumber string a caller passes
MaxBundle == 1     \* most region codes in a metadata bundle
MaxNational == 1   \* largest national number (as a number) the model draws

\* ------------------------------------------------------- JavaScript values
\* A JavaScript value of the kinds a phoneObj field can hold: t is typeof
\* (with "null" split from "object"), s the characters of a string, n the
\* value of a number.
Str(s) == [t |-> "string", s |-> s, n |-> 0]
Num(n) == [t |-> "number", s |-> <<>>, n |-> n]
Undefined == [t |-> "undefined", s |-> <<>>, n |-> 0]
Null == [t |-> "null", s |-> <<>>, n |-> 0]

\* Number(x) of something that is not a number; no digit string denotes it
NaN == -1

Digits == <<"0", "1", "2", "3", "4", "5", "6", "7", "8", "9">>

IsDigit(c) == \E i \in 1..10 : Digits[i] = c

DigitValue(c) == (CHOOSE i \in 1..10 : Digits[i] = c) - 1

RECURSIVE DigitsValue(_)
DigitsValue(s) ==
    IF s = <<>> THEN 0
    ELSE 10 * DigitsValue(SubSeq(s, 1, Len(s) - 1)) + DigitValue(s[Len(s)])

\* Number(string): "" is 0, a digit string is its value (leading zeros are
\* dropped by the value), anything else is NaN
StringToNumber(s) ==
    IF \A i \in 1..Len(s) : IsDigit(s[i]) THEN DigitsValue(s) ELSE NaN

\* Number(x)
ToNumber(x) ==
    CASE x.t = "string" -> StringToNumber(x.s)
      [] x.t = "number" -> x.n
      [] x.t = "null" -> 0
      [] OTHER -> NaN

\* number.toString()
RECURSIVE NumberToString(_)
NumberToString(n) ==
    IF n = NaN THEN <<"N", "a", "N">>
    ELSE IF n < 10 THEN <<Digits[n + 1]>>
    ELSE NumberToString(n \div 10) \o <<Digits[(n % 10) + 1]>>

\* x.toString() of a string or a number
JsToString(x) == IF x.t = "string" THEN x.s ELSE NumberToString(x.n)

\* string.charAt(0): "" for the empty string
CharAt0(s) == IF Len(s) = 0 THEN "" ELSE s[1]

\* ------------------------------------------------------- constant tables
\* The names every object literal inherits from Object.prototype: a lookup
\* map[key] with such a key yields the inherited member, not undefined.
ObjectPrototypeKeys == {"constructor", "toString", "valueOf", "hasOwnProperty"}

Inherited(key) == "Object.prototype." \o key

\* obj[key] on an object literal with own properties `own`
Lookup(own, key) ==
    IF key \in DOMAIN own THEN own[key]
    ELSE IF key \in ObjectPrototypeKeys THEN Inherited(key)
    ELSE "undefined"

stylesMap ==
    [e164 |-> "PNF.E164", international |-> "PNF.INTERNATIONAL",
     national |-> "PNF.NATIONAL", rfc3966 |-> "PNF.RFC3966"]

validationErrors ==
    [INVALID_FOR_REGION |-> "PHN_INVALID_FOR_REGION",
     INVALID_COUNTRY_CODE |-> "PHN_INVALID_COUNTRY_CODE",
     TOO_LONG |-> "PHN_NUMBER_TOO_LONG",
     TOO_SHORT |-> "PHN_NUMBER_TOO_SHORT"]

exceptions ==
    [INVALID_STYLE |-> "Invalid style property: ",
     METADATA_NOT_LOADED |-> "No metadata loaded",
     UNSUPPORTED_REGION |-> "Metadata not loaded for region: ",
     PHONE_OBJ_INVALID |-> "Phone object conversion failed: "]

legacyRegionCodeMap == [AN |-> "BQ", PN |-> "NZ", XK |-> "MC"]

numberTypeMap ==
    [FIXED_LINE |-> "PNT.FIXED_LINE", MOBILE |-> "PNT.MOBILE",
     FIXED_LINE_OR_MOBILE |-> "PNT.FIXED_LINE_OR_MOBILE",
     TOLL_FREE |-> "PNT.TOLL_FREE", PREMIUM_RATE |-> "PNT.PREMIUM_RATE",
     SHARED_COST |-> "PNT.SHARED_COST", VOIP |-> "PNT.VOIP",
     PERSONAL_NUMBER |-> "PNT.PERSONAL_NUMBER", PAGER |-> "PNT.PAGER",
     UAN |-> "PNT.UAN", VOICEMAIL |-> "PNT.VOICEMAIL"]

\* mutant of ResolveRegion: the remap line is missing
ResolveRegion_unmapped(regionCode) == regionCode

\* regionCode = legacyRegionCodeMap[regionCode] || regionCode
ResolveRegion(regionCode) ==
    LET hit == Lookup(legacyRegionCodeMap, regionCode)
    IN  IF hit = "undefined" THEN regionCode ELSE hit

\* ------------------------------------------------------------------ state
VARIABLES
    allRegionCodes,    \* the module variable: undefined, or the bundle's regionCodes
    leadingZeroCodes,  \* injected metadata: the country codes whose plan allows a leading zero
    loadCalled,        \* whether useMeta (loadMetadata) has ever been called
    last               \* the last public call: operation, arguments, oracle answers, outcome, oracle calls

vars == <<allRegionCodes, leadingZeroCodes, loadCalled, last>>

\* --------------------------------------------------------------- data shapes
\* i18n.phonenumbers.PhoneNumber: values_[1], values_[2], values_[3], values_[4].
\* italianLeadingZero holds what getItalianLeadingZero answers (false when unset).
Canonical(cc, nn, ext, ilz) ==
    [countryCode |-> cc, nationalNumber |-> nn, extension |-> ext,
     italianLeadingZero |-> ilz]

NoNumber == Canonical(0, 0, Undefined, FALSE)

\* a phoneObj argument or result: k is "object", "undefined" or "null"
PhoneObj(cc, nn, ext) ==
    [k |-> "object", countryCode |-> cc, nationalNumber |-> nn, extension |-> ext]

UndefinedPhoneObj ==
    [k |-> "undefined", countryCode |-> Undefined, nationalNumber |-> Undefined,
     extension |-> Undefined]

NullPhoneObj ==
    [k |-> "null", countryCode |-> Undefined, nationalNumber |-> Undefined,
     extension |-> Undefined]

\* what the oracle answers to parse / getExampleNumberForType: a number,
\* null (no example), or a thrown message
OracleNumber(num) == [k |-> "number", num |-> num, message |-> ""]
OracleNull == [k |-> "null", num |-> NoNumber, message |-> ""]
OracleThrow(message) == [k |-> "throw", num |-> NoNumber, message |-> message]

\* one call of the oracle with its arguments
Call(fn, region, arg, cc, num, text) ==
    [fn |-> fn, region |-> region, arg |-> arg, cc |-> cc, num |-> num, text |-> text]

\* values a public operation returns
Value(t, s, n, obj) == [t |-> t, s |-> s, n |-> n, obj |-> obj]
NoValue == Value("undefined", "", 0, UndefinedPhoneObj)
TrueValue == Value("boolean", "true", 0, UndefinedPhoneObj)
ErrorValue(message) == Value("Error", message, 0, UndefinedPhoneObj)
StringValue(s) == Value("string", s, 0, UndefinedPhoneObj)
NumberValue(n) == Value("number", "", n, UndefinedPhoneObj)
PhoneObjValue(obj) == Value("phoneObj", "", 0, obj)
FormatterValue(region) == Value("formatter", region, 0, UndefinedPhoneObj)
OracleValue(what) == Value("oracle", what, 0, UndefinedPhoneObj)

\* how a public operation ends, with the oracle calls it made
Raise(message, detail, calls) ==
    [kind |-> "throw", message |-> message, detail |-> detail, value |-> NoValue,
     calls |-> calls]

Return(value, calls) ==
    [kind |-> "return", message |-> "", detail |-> "", value |-> value,
     calls |-> calls]

\* ---------------------------------------------------------------- helpers
\* mutant of checkMetadataLoaded: the length test is missing
checkMetadataLoaded_definedOnly == allRegionCodes.defined

\* checkMetadataLoaded passes (does not throw)
checkMetadataLoaded ==
    ~(~allRegionCodes.defined \/ Cardinality(allRegionCodes.codes) = 0)

\* checkSupportedRegion passes: allRegionCodes.indexOf(regionCode) !== -1
checkSupportedRegion(regionCode) == regionCode \in allRegionCodes.codes

\* phoneUtil.isLeadingZeroPossible(countryCode), answered from the metadata
isLeadingZeroPossible(countryCode) == countryCode \in leadingZeroCodes

LeadingZeroCall(countryCode) ==
    Call("isLeadingZeroPossible", "", "", countryCode, NoNumber, "")

\* mutant of protoToPhoneObj: the leading zero is never put back
protoToPhoneObj_noZero(phoneNumber) ==
    IF phoneNumber.k = "null" THEN [obj |-> NullPhoneObj, calls |-> <<>>]
    ELSE [obj |-> PhoneObj(Str(NumberToString(phoneNumber.num.countryCode)),
                           Str(NumberToString(phoneNumber.num.nationalNumber)),
                           phoneNumber.num.extension),
          calls |-> <<>>]

\* protoToPhoneObj: [obj, calls]
protoToPhoneObj(phoneNumber) ==
    IF phoneNumber.k = "null" THEN [obj |-> NullPhoneObj, calls |-> <<>>]
    ELSE
      LET num == phoneNumber.num
          asked == num.italianLeadingZero
          prepend == asked /\ isLeadingZeroPossible(num.countryCode)
          national == NumberToString(num.nationalNumber)
      IN  [obj |-> PhoneObj(Str(NumberToString(num.countryCode)),
                            Str(IF prepend THEN <<"0">> \o national ELSE national),
                            num.extension),
           calls |-> IF asked THEN <<LeadingZeroCall(num.countryCode)>> ELSE <<>>]

\* phoneObjToProto: [threw, message, num, calls]; it throws only where the
\* JavaScript does: reading a property of undefined or null
phoneObjToProto(phoneObj) ==
    IF phoneObj.k # "object"
    THEN [threw |-> TRUE, message |-> "TypeError", num |-> NoNumber, calls |-> <<>>]
    ELSE
      LET countryCode == ToNumber(phoneObj.countryCode)
          raw == phoneObj.nationalNumber
          isString == raw.t = "string"
          zeroFirst == isString /\ CharAt0(raw.s) = "0"
          flag == zeroFirst /\ isLeadingZeroPossible(countryCode)
          nationalNumber == IF isString THEN ToNumber(raw) ELSE raw.n
          ext == phoneObj.extension
          extension == IF ext.t # "undefined" /\ ext.t # "null"
                       THEN Str(JsToString(ext)) ELSE Undefined
      IN  [threw |-> FALSE, message |-> "",
           num |-> Canonical(countryCode, nationalNumber, extension, flag),
           calls |-> IF zeroFirst THEN <<LeadingZeroCall(countryCode)>> ELSE <<>>]

\* ------------------------------------------------------- public operations
\* Each operation is the whole exported function: its outcome (a raised
\* Error or a returned value) together with the oracle calls it made, given
\* the oracle's answer `ans` to the call it may make.

\* mutant of ErrorCodeFor: the switch has no default branch
ErrorCodeFor_noDefault(validFlag) ==
    CASE validFlag = "INVALID_COUNTRY_CODE" -> validationErrors.INVALID_COUNTRY_CODE
      [] validFlag = "TOO_SHORT" -> validationErrors.TOO_SHORT
      [] validFlag = "TOO_LONG" -> validationErrors.TOO_LONG
      [] OTHER -> "undefined"

\* the switch over isPossibleNumberWithReason's result, with its default
ErrorCodeFor(validFlag) ==
    CASE validFlag = "INVALID_COUNTRY_CODE" -> validationErrors.INVALID_COUNTRY_CODE
      [] validFlag = "TOO_SHORT" -> validationErrors.TOO_SHORT
      [] validFlag = "TOO_LONG" -> validationErrors.TOO_LONG
      [] OTHER -> validationErrors.INVALID_FOR_REGION

countryCodeToRegionCodeMap ==
    IF ~checkMetadataLoaded THEN Raise(exceptions.METADATA_NOT_LOADED, "", <<>>)
    ELSE Return(Value("metadata", "countryCodeToRegionCodeMap", 0, UndefinedPhoneObj), <<>>)

getSupportedRegions ==
    IF ~checkMetadataLoaded THEN Raise(exceptions.METADATA_NOT_LOADED, "", <<>>)
    ELSE Return(OracleValue("getSupportedRegions"),
                <<Call("getSupportedRegions", "", "", 0, NoNumber, "")>>)

getCountryCodeForRegion(regionCode, ans) ==
    IF ~checkMetadataLoaded THEN Raise(exceptions.METADATA_NOT_LOADED, "", <<>>)
    ELSE
      LET region == ResolveRegion(regionCode)
      IN  IF ~checkSupportedRegion(region)
          THEN Raise(exceptions.UNSUPPORTED_REGION, region, <<>>)
          ELSE Return(NumberValue(ans.countryCode),
                      <<Call("getCountryCodeForRegion", region, "", 0, NoNumber, "")>>)

getAsYouTypeFormatter(regionCode) ==
    IF ~checkMetadataLoaded THEN Raise(exceptions.METADATA_NOT_LOADED, "", <<>>)
    ELSE
      LET region == ResolveRegion(regionCode)
      IN  IF ~checkSupportedRegion(region)
          THEN Raise(exceptions.UNSUPPORTED_REGION, region, <<>>)
          ELSE Return(FormatterValue(region),
                      <<Call("AsYouTypeFormatter", region, "", 0, NoNumber, "")>>)

\* mutant of formatPhoneNumber: the phoneObj is converted before the
\* readiness check
formatPhoneNumber_convertFirst(phoneObj, options, ans) ==
    LET conv == phoneObjToProto(phoneObj)
        style == IF options.given THEN options.style ELSE "undefined"
        formatType == Lookup(stylesMap, style)
    IN  IF conv.threw
        THEN Raise(exceptions.PHONE_OBJ_INVALID, conv.message, conv.calls)
        ELSE IF ~checkMetadataLoaded
        THEN Raise(exceptions.METADATA_NOT_LOADED, "", conv.calls)
        ELSE IF formatType = "undefined"
        THEN Raise(exceptions.INVALID_STYLE, style, conv.calls)
        ELSE Return(StringValue(ans.formatted),
                    conv.calls \o <<Call("format", "", formatType, 0, conv.num, "")>>)

formatPhoneNumber(phoneObj, options, ans) ==
    IF ~checkMetadataLoaded THEN Raise(exceptions.METADATA_NOT_LOADED, "", <<>>)
    ELSE
      LET conv == phoneObjToProto(phoneObj)
          style == IF options.given THEN options.style ELSE "undefined"
          formatType == Lookup(stylesMap, style)
      IN  IF conv.threw
          THEN Raise(exceptions.PHONE_OBJ_INVALID, conv.message, conv.calls)
          ELSE IF formatType = "undefined"
          THEN Raise(exceptions.INVALID_STYLE, style, conv.calls)
          ELSE Return(StringValue(ans.formatted),
                      conv.calls \o <<Call("format", "", formatType, 0, conv.num, "")>>)

\* mutant of validatePhoneNumber: the permissive check is consulted first
\* and its three specific results win over the strict check
validatePhoneNumber_permissiveFirst(phoneObj, regionCode, ans) ==
    IF ~checkMetadataLoaded THEN Raise(exceptions.METADATA_NOT_LOADED, "", <<>>)
    ELSE
      LET region == ResolveRegion(regionCode)
          conv == phoneObjToProto(phoneObj)
          both == conv.calls \o
                    <<Call("isPossibleNumberWithReason", "", "", 0, conv.num, ""),
                      Call("isValidNumberForRegion", region, "", 0, conv.num, "")>>
      IN  IF ~checkSupportedRegion(region)
          THEN Raise(exceptions.UNSUPPORTED_REGION, region, <<>>)
          ELSE IF conv.threw
          THEN Raise(exceptions.PHONE_OBJ_INVALID, conv.message, conv.calls)
          ELSE IF ans.reason \in {"INVALID_COUNTRY_CODE", "TOO_SHORT", "TOO_LONG"}
          THEN Return(ErrorValue(ErrorCodeFor(ans.reason)), both)
          ELSE IF ans.valid THEN Return(TrueValue, both)
          ELSE Return(ErrorValue(ErrorCodeFor(ans.reason)), both)

validatePhoneNumber(phoneObj, regionCode, ans) ==
    IF ~checkMetadataLoaded THEN Raise(exceptions.METADATA_NOT_LOADED, "", <<>>)
    ELSE
      LET region == ResolveRegion(regionCode)
          conv == phoneObjToProto(phoneObj)
          strict == conv.calls \o
                    <<Call("isValidNumberForRegion", region, "", 0, conv.num, "")>>
          permissive == strict \o
                    <<Call("isPossibleNumberWithReason", "", "", 0, conv.num, "")>>
      IN  IF ~checkSupportedRegion(region)
          THEN Raise(exceptions.UNSUPPORTED_REGION, region, <<>>)
          ELSE IF conv.threw
          THEN Raise(exceptions.PHONE_OBJ_INVALID, conv.message, conv.calls)
          ELSE IF ans.valid THEN Return(TrueValue, strict)
          ELSE Return(ErrorValue(ErrorCodeFor(ans.reason)), permissive)

\* mutant of parsePhoneNumber: the parser's failure is thrown on, not returned
parsePhoneNumber_rethrow(phoneNumberToParse, regionCode, ans) ==
    IF ~checkMetadataLoaded THEN Raise(exceptions.METADATA_NOT_LOADED, "", <<>>)
    ELSE
      LET region == ResolveRegion(regionCode)
          parse == <<Call("parse", region, "", 0, NoNumber, phoneNumberToParse)>>
          back == protoToPhoneObj(ans.number)
      IN  IF ~checkSupportedRegion(region)
          THEN Raise(exceptions.UNSUPPORTED_REGION, region, <<>>)
          ELSE IF ans.number.k = "throw"
          THEN Raise(ans.number.message, "", parse)
          ELSE Return(PhoneObjValue(back.obj), parse \o back.calls)

parsePhoneNumber(phoneNumberToParse, regionCode, ans) ==
    IF ~checkMetadataLoaded THEN Raise(exceptions.METADATA_NOT_LOADED, "", <<>>)
    ELSE
      LET region == ResolveRegion(regionCode)
          parse == <<Call("parse", region, "", 0, NoNumber, phoneNumberToParse)>>
          back == protoToPhoneObj(ans.number)
      IN  IF ~checkSupportedRegion(region)
          THEN Raise(exceptions.UNSUPPORTED_REGION, region, <<>>)
          ELSE IF ans.number.k = "throw"
          THEN Return(ErrorValue(ans.number.message), parse)
          ELSE Return(PhoneObjValue(back.obj), parse \o back.calls)

getExampleNumberForType(regionCode, type, ans) ==
    IF ~checkMetadataLoaded THEN Raise(exceptions.METADATA_NOT_LOADED, "", <<>>)
    ELSE
      LET region == ResolveRegion(regionCode)
          found == Lookup(numberTypeMap, type)
          numberType == IF found = "undefined" THEN "PNT.UNKNOWN" ELSE found
          example == <<Call("getExampleNumberForType", region, numberType, 0, NoNumber, "")>>
          back == protoToPhoneObj(ans.number)
      IN  IF ~checkSupportedRegion(region)
          THEN Raise(exceptions.UNSUPPORTED_REGION, region, <<>>)
          ELSE Return(PhoneObjValue(back.obj), example \o back.calls)

\* ------------------------------------------------------------------ inputs
Regions == {"AN", "BQ", "PN", "NZ", "XK", "MC", "US"}

\* region arguments: the known codes, an unknown one, an inherited name
RegionArgs == Regions \cup {"ZZ", "constructor"}

CountryCodes == {1, 39}

\* bundle['regionCodes'] and the leading-zero part of bundle['countryToMetadata']
Bundles ==
    [regionCodes : {c \in SUBSET Regions : Cardinality(c) <= MaxBundle},
     leadingZero : SUBSET CountryCodes]

\* nationalNumber strings: k zeros, then nothing or more digits; and a
\* string that is no number
Zeros(k) == [i \in 1..k |-> "0"]

NationalStrings ==
    {Zeros(k) \o rest : k \in 0..MaxZeros, rest \in {<<>>, <<"1">>, <<"1", "0">>}}
    \cup {<<"a">>}

PhoneObjs ==
    {PhoneObj(cc, nn, ext) :
        cc \in {Str(<<"3", "9">>), Num(1), Str(<<"a">>)},
        nn \in {Str(s) : s \in NationalStrings} \cup {Num(n) : n \in 0..MaxNational},
        ext \in {Undefined, Null, Str(<<"7">>), Num(7)}}
    \cup {UndefinedPhoneObj}

\* the options argument: absent, or an object whose style is a string or absent
StyleArgs ==
    {"e164", "international", "national", "rfc3966", "E164", "bogus",
     "constructor", "toString", "undefined"}

OptionArgs ==
    {[given |-> FALSE, style |-> "undefined"]}
    \cup {[given |-> TRUE, style |-> s] : s \in StyleArgs}

TypeArgs ==
    DOMAIN numberTypeMap
    \cup {"BOGUS_TYPE", "fixed_line", "UNKNOWN", "constructor", "toString", "undefined"}

TextArgs == {"+442012345678", "not a number"}

\* PhoneNumbers the oracle can hand back
CanonicalNumbers ==
    {Canonical(cc, nn, ext, ilz) :
        cc \in CountryCodes, nn \in 0..MaxNational,
        ext \in {Undefined, Str(<<"7">>)}, ilz \in BOOLEAN}

\* PhoneNumberUtil.ValidationResult
ValidationResults ==
    {"IS_POSSIBLE", "IS_POSSIBLE_LOCAL_ONLY", "INVALID_COUNTRY_CODE",
     "TOO_SHORT", "INVALID_LENGTH", "TOO_LONG"}

Args(phoneObj, options, regionCode, type, text) ==
    [phoneObj |-> phoneObj, options |-> options, regionCode |-> regionCode,
     type |-> type, text |-> text]

NoOptions == [given |-> FALSE, style |-> "undefined"]
NoArgs == Args(UndefinedPhoneObj, NoOptions, "", "", "")

\* the oracle's answers to one operation; a field is "" / 0 / null when the
\* operation did not ask for it
NoAnswer ==
    [countryCode |-> 0, valid |-> FALSE, reason |-> "", formatted |-> "",
     number |-> OracleNull, asked |-> FALSE]

Answered == [NoAnswer EXCEPT !.asked = TRUE]

Asked(calls, fn) == \E i \in 1..Len(calls) : calls[i].fn = fn

NoCall == [op |-> "none", args |-> NoArgs, ans |-> NoAnswer,
           outcome |-> Return(NoValue, <<>>)]

\* ----------------------------------------------------------------- actions
Init ==
    /\ allRegionCodes = [defined |-> FALSE, codes |-> {}]
    /\ leadingZeroCodes = {}
    /\ loadCalled = FALSE
    /\ last = NoCall

\* the caller is between calls
Idle == last.op = "none"

\* useMeta(bundle), exported to callers as loadMetadata
useMeta ==
    /\ Idle
    /\ \E bundle \in Bundles :
          /\ allRegionCodes' = [defined |-> TRUE, codes |-> bundle.regionCodes]
          /\ leadingZeroCodes' = bundle.leadingZero
    /\ loadCalled' = TRUE
    /\ last' = [NoCall EXCEPT !.op = "useMeta"]

\* a call that leaves the module's state alone
Record(op, args, ans, outcome) ==
    /\ last' = [op |-> op, args |-> args, ans |-> ans, outcome |-> outcome]
    /\ UNCHANGED <<allRegionCodes, leadingZeroCodes, loadCalled>>

CountryCodeToRegionCodeMap ==
    /\ Idle
    /\ Record("countryCodeToRegionCodeMap", NoArgs, NoAnswer, countryCodeToRegionCodeMap)

GetSupportedRegions ==
    /\ Idle
    /\ Record("getSupportedRegions", NoArgs, NoAnswer, getSupportedRegions)

GetCountryCodeForRegion ==
    /\ Idle
    /\ \E regionCode \in RegionArgs :
       \E ans \in {NoAnswer} \cup {[Answered EXCEPT !.countryCode = c] : c \in CountryCodes} :
          LET out == getCountryCodeForRegion(regionCode, ans)
          IN  /\ ans.asked = Asked(out.calls, "getCountryCodeForRegion")
              /\ Record("getCountryCodeForRegion",
                        [NoArgs EXCEPT !.regionCode = regionCode], ans, out)

GetAsYouTypeFormatter ==
    /\ Idle
    /\ \E regionCode \in RegionArgs :
          Record("getAsYouTypeFormatter", [NoArgs EXCEPT !.regionCode = regionCode],
                 NoAnswer, getAsYouTypeFormatter(regionCode))

FormatPhoneNumber ==
    /\ Idle
    /\ \E phoneObj \in PhoneObjs, options \in OptionArgs :
       \E ans \in {NoAnswer} \cup {[Answered EXCEPT !.formatted = f] : f \in {"+39 01"}} :
          LET out == formatPhoneNumber(phoneObj, options, ans)
          IN  /\ ans.asked = Asked(out.calls, "format")
              /\ Record("formatPhoneNumber",
                        [NoArgs EXCEPT !.phoneObj = phoneObj, !.options = options],
                        ans, out)

ValidatePhoneNumber ==
    /\ Idle
    /\ \E phoneObj \in PhoneObjs, regionCode \in RegionArgs :
       \E ans \in {NoAnswer} \cup {[Answered EXCEPT !.valid = TRUE]}
                  \cup {[Answered EXCEPT !.reason = r] : r \in ValidationResults} :
          LET out == validatePhoneNumber(phoneObj, regionCode, ans)
          IN  /\ ans.asked = Asked(out.calls, "isValidNumberForRegion")
              /\ (ans.reason # "") = Asked(out.calls, "isPossibleNumberWithReason")
              /\ Record("validatePhoneNumber",
                        [NoArgs EXCEPT !.phoneObj = phoneObj, !.regionCode = regionCode],
                        ans, out)

ParsePhoneNumber ==
    /\ Idle
    /\ \E text \in TextArgs, regionCode \in RegionArgs :
       \E ans \in {NoAnswer}
                  \cup {[Answered EXCEPT !.number = OracleNumber(n)] : n \in CanonicalNumbers}
                  \cup {[Answered EXCEPT !.number = OracleThrow("Invalid country calling code")]} :
          LET out == parsePhoneNumber(text, regionCode, ans)
          IN  /\ ans.asked = Asked(out.calls, "parse")
              /\ Record("parsePhoneNumber",
                        [NoArgs EXCEPT !.text = text, !.regionCode = regionCode],
                        ans, out)

GetExampleNumberForType ==
    /\ Idle
    /\ \E regionCode \in RegionArgs, type \in TypeArgs :
       \E ans \in {NoAnswer, Answered}
                  \cup {[Answered EXCEPT !.number = OracleNumber(n)] : n \in CanonicalNumbers} :
          LET out == getExampleNumberForType(regionCode, type, ans)
          IN  /\ ans.asked = Asked(out.calls, "getExampleNumberForType")
              /\ Record("getExampleNumberForType",
                        [NoArgs EXCEPT !.regionCode = regionCode, !.type = type],
                        ans, out)

\* the caller takes the result and is ready for its next call
TakeResult ==
    /\ ~Idle
    /\ last' = NoCall
    /\ UNCHANGED <<allRegionCodes, leadingZeroCodes, loadCalled>>

Next ==
    \/ useMeta
    \/ CountryCodeToRegionCodeMap
    \/ GetSupportedRegions
    \/ GetCountryCodeForRegion
    \/ GetAsYouTypeFormatter
    \/ FormatPhoneNumber
    \/ ValidatePhoneNumber
    \/ ParsePhoneNumber
    \/ GetExampleNumberForType
    \/ TakeResult

Spec == Init /\ [][Next]_vars

\* ------------------------------------------------------------------ claims
\* the operations that take a region code
RegionOps ==
    {"getCountryCodeForRegion", "validatePhoneNumber", "parsePhoneNumber",
     "getExampleNumberForType", "getAsYouTypeFormatter"}

\* the recorded operation run again on other arguments and answers
Apply(op, args, ans) ==
    CASE op = "getCountryCodeForRegion" -> getCountryCodeForRegion(args.regionCode, ans)
      [] op = "validatePhoneNumber" -> validatePhoneNumber(args.phoneObj, args.regionCode, ans)
      [] op = "parsePhoneNumber" -> parsePhoneNumber(args.text, args.regionCode, ans)
      [] op = "getExampleNumberForType" -> getExampleNumberForType(args.regionCode, args.type, ans)
      [] op = "getAsYouTypeFormatter" -> getAsYouTypeFormatter(args.regionCode)
      [] op = "formatPhoneNumber" -> formatPhoneNumber(args.phoneObj, args.options, ans)
      [] op = "getSupportedRegions" -> getSupportedRegions
      [] OTHER -> countryCodeToRegionCodeMap

Raised(outcome, message) == outcome.kind = "throw" /\ outcome.message = message

\* C1: while loadMetadata has never been called, every other public operation
\* raises MetadataNotLoaded, whatever its arguments, having made no oracle call.
C1_ReadinessGate ==
    (~loadCalled /\ last.op \notin {"none", "useMeta"}) =>
        /\ Raised(last.outcome, "No metadata loaded")
        /\ last.outcome.detail = ""
        /\ last.outcome.calls = <<>>

\* C1 witness: before any load, formatPhoneNumber was called with no phoneObj
\* and a bad style, and the readiness check is the one that answered.
C1_Witness ==
    /\ ~loadCalled
    /\ last.op = "formatPhoneNumber"
    /\ last.args.phoneObj.k = "undefined"
    /\ last.args.options.style = "bogus"
    /\ Raised(last.outcome, "No metadata loaded")

HandedBack ==
    /\ last.op \in {"parsePhoneNumber", "getExampleNumberForType"}
    /\ last.ans.asked
    /\ last.ans.number.k = "number"
    /\ isLeadingZeroPossible(last.ans.number.num.countryCode)

\* C3 as stated: for every canonical number N whose country code permits a
\* leading zero, phoneObjToProto(protoToPhoneObj(N)) = N in all four fields.
C3_RoundTripAsStated ==
    HandedBack =>
        LET back == phoneObjToProto(last.outcome.value.obj)
        IN  ~back.threw /\ back.num = last.ans.number.num

\* C3 amended: the round trip holds in all four fields unless N has national
\* number 0 with the flag clear; there the other three fields come back and
\* the flag comes back set.
C3_RoundTrip ==
    HandedBack =>
        LET N == last.ans.number.num
            back == phoneObjToProto(last.outcome.value.obj)
        IN  /\ ~back.threw
            /\ IF N.nationalNumber = 0 /\ ~N.italianLeadingZero
               THEN back.num = [N EXCEPT !.italianLeadingZero = TRUE]
               ELSE back.num = N

\* C3 witness: a number with the flag set and an extension was handed back
\* with its zero re-prepended.
C3_Witness ==
    /\ HandedBack
    /\ last.op = "parsePhoneNumber"
    /\ last.ans.number.num.italianLeadingZero
    /\ last.ans.number.num.nationalNumber = 1
    /\ last.ans.number.num.extension = Str(<<"7">>)
    /\ last.outcome.value.obj.nationalNumber = Str(<<"0", "1">>)

\* validatePhoneNumber got as far as the oracle: metadata loaded, region
\* supported after the remap, phoneObj converted
ValidateReachedOracle ==
    /\ last.op = "validatePhoneNumber"
    /\ checkMetadataLoaded
    /\ checkSupportedRegion(ResolveRegion(last.args.regionCode))
    /\ ~phoneObjToProto(last.args.phoneObj).threw

FourCodes ==
    {"PHN_INVALID_FOR_REGION", "PHN_INVALID_COUNTRY_CODE", "PHN_NUMBER_TOO_LONG",
     "PHN_NUMBER_TOO_SHORT"}

\* C4: whatever validatePhoneNumber returns is true or an Error carrying
\* exactly one of the four defined codes (errors it raises are not results).
C4_ValidationExhaustive ==
    (last.op = "validatePhoneNumber" /\ last.outcome.kind = "return") =>
        \/ last.outcome.value = TrueValue
        \/ /\ last.outcome.value.t = "Error"
           /\ last.outcome.value.s \in FourCodes

\* C4 witness: the permissive check gave a result the switch does not name,
\* and the catch-all code came back.
C4_Witness ==
    /\ ValidateReachedOracle
    /\ last.ans.reason = "INVALID_LENGTH"
    /\ last.outcome.value = ErrorValue("PHN_INVALID_FOR_REGION")

\* the code the claim assigns to each permissive result
ClaimedCode(reason) ==
    IF reason = "INVALID_COUNTRY_CODE" THEN "PHN_INVALID_COUNTRY_CODE"
    ELSE IF reason = "TOO_SHORT" THEN "PHN_NUMBER_TOO_SHORT"
    ELSE IF reason = "TOO_LONG" THEN "PHN_NUMBER_TOO_LONG"
    ELSE "PHN_INVALID_FOR_REGION"

\* C5: once validatePhoneNumber reaches the oracle, a valid strict answer
\* gives true whatever the permissive check would answer, and the permissive
\* check is not asked; an invalid strict answer gives the code of the
\* permissive result, InvalidForRegion for every result but the three named.
C5_StrictOverPermissive ==
    ValidateReachedOracle =>
        /\ \A r \in ValidationResults \cup {""} :
              LET out == validatePhoneNumber(last.args.phoneObj, last.args.regionCode,
                                             [Answered EXCEPT !.valid = TRUE, !.reason = r])
              IN  /\ out.kind = "return"
                  /\ out.value = TrueValue
                  /\ ~Asked(out.calls, "isPossibleNumberWithReason")
        /\ last.ans.valid => last.outcome.value = TrueValue
        /\ ~last.ans.valid =>
              /\ last.outcome.kind = "return"
              /\ last.outcome.value = ErrorValue(ClaimedCode(last.ans.reason))

\* C5 witness: strict failure with a permissive "possible" gave InvalidForRegion.
C5_Witness ==
    /\ ValidateReachedOracle
    /\ ~last.ans.valid
    /\ last.ans.reason = "IS_POSSIBLE"
    /\ last.outcome.value = ErrorValue("PHN_INVALID_FOR_REGION")

\* a phoneObj whose countryCode or nationalNumber is not numeric
NonNumeric(phoneObj) ==
    /\ phoneObj.k = "object"
    /\ \/ ToNumber(phoneObj.countryCode) = NaN
       \/ ToNumber(phoneObj.nationalNumber) = NaN

\* C6 as stated: formatPhoneNumber and validatePhoneNumber raise
\* PhoneObjectInvalid for a phoneObj whose countryCode or nationalNumber is
\* not numeric, and pass nothing to the oracle.
C6_NonNumericRejected ==
    ( /\ last.op \in {"formatPhoneNumber", "validatePhoneNumber"}
      /\ checkMetadataLoaded
      /\ last.op = "validatePhoneNumber" =>
            checkSupportedRegion(ResolveRegion(last.args.regionCode))
      /\ NonNumeric(last.args.phoneObj) )
    => Raised(last.outcome, "Phone object conversion failed: ")

\* the four recognised styles
RecognisedStyles == {"e164", "international", "national", "rfc3966"}

\* C7 as stated: with metadata loaded and a convertible phoneObj,
\* formatPhoneNumber raises InvalidStyle for every style that is not one of
\* the four (and for absent options or style), and returns the oracle's
\* string for the four.
C7_StyleGate ==
    ( /\ last.op = "formatPhoneNumber"
      /\ checkMetadataLoaded
      /\ ~phoneObjToProto(last.args.phoneObj).threw )
    => LET style == IF last.args.options.given THEN last.args.options.style
                    ELSE "undefined"
       IN  IF style \in RecognisedStyles
           THEN last.outcome.kind = "return"
                /\ last.outcome.value = StringValue(last.ans.formatted)
                /\ ~Asked(last.outcome.calls, "isValidNumberForRegion")
                /\ ~Asked(last.outcome.calls, "isPossibleNumberWithReason")
           ELSE Raised(last.outcome, "Invalid style property: ")
                /\ last.outcome.detail = style

\* the operation got past the readiness and region checks
PastRegionCheck ==
    /\ checkMetadataLoaded
    /\ checkSupportedRegion(ResolveRegion(last.args.regionCode))

\* C8 as stated: with metadata loaded and a supported region,
\* getExampleNumberForType never raises, and for every type that is not one
\* of the eleven recognised names it asks the oracle for PNT.UNKNOWN and
\* returns the converted answer (null when there is no example).
C8_LenientType ==
    (last.op = "getExampleNumberForType" /\ PastRegionCheck) =>
        /\ last.outcome.kind = "return"
        /\ last.args.type \notin DOMAIN numberTypeMap =>
              /\ \A i \in 1..Len(last.outcome.calls) :
                    last.outcome.calls[i].fn = "getExampleNumberForType" =>
                        last.outcome.calls[i].arg = "PNT.UNKNOWN"
              /\ last.outcome.value =
                    PhoneObjValue(protoToPhoneObj(last.ans.number).obj)

\* C9: parsePhoneNumber raises MetadataNotLoaded, then UnsupportedRegion,
\* each before the parser is called; past both checks it never raises: a
\* parser failure comes back as an Error value with the parser's message, a
\* parsed number comes back converted by protoToPhoneObj.
C9_ParseFailureIsValue ==
    last.op = "parsePhoneNumber" =>
        /\ ~checkMetadataLoaded =>
              /\ Raised(last.outcome, "No metadata loaded")
              /\ ~Asked(last.outcome.calls, "parse")
        /\ (checkMetadataLoaded /\ ~PastRegionCheck) =>
              /\ Raised(last.outcome, "Metadata not loaded for region: ")
              /\ last.outcome.detail = ResolveRegion(last.args.regionCode)
              /\ ~Asked(last.outcome.calls, "parse")
        /\ PastRegionCheck =>
              /\ last.outcome.kind = "return"
              /\ last.outcome.calls[1] =
                    Call("parse", ResolveRegion(last.args.regionCode), "", 0, NoNumber,
                         last.args.text)
              /\ last.ans.number.k = "throw" =>
                    last.outcome.value = ErrorValue(last.ans.number.message)
              /\ last.ans.number.k = "number" =>
                    LET N == last.ans.number.num
                        obj == last.outcome.value.obj
                    IN  /\ last.outcome.value.t = "phoneObj"
                        /\ obj.k = "object"
                        /\ obj.countryCode = Str(NumberToString(N.countryCode))
                        /\ obj.extension = N.extension
                        /\ obj.nationalNumber =
                              Str((IF N.italianLeadingZero
                                      /\ isLeadingZeroPossible(N.countryCode)
                                   THEN <<"0">> ELSE <<>>)
                                  \o NumberToString(N.nationalNumber))

\* C9 witness: with the region supported after the remap, the parser failed
\* and its message came back as a value.
C9_Witness ==
    /\ last.op = "parsePhoneNumber"
    /\ PastRegionCheck
    /\ last.args.regionCode = "XK"
    /\ last.ans.number.k = "throw"
    /\ last.outcome.kind = "return"
    /\ last.outcome.value = ErrorValue("Invalid country calling code")

\* the number formatPhoneNumber or validatePhoneNumber handed to the oracle
PassedToOracle(calls) ==
    calls[CHOOSE i \in 1..Len(calls) :
            calls[i].fn \in {"format", "isValidNumberForRegion"}].num

\* a nationalNumber string of digits that starts with a zero
ZeroLed(phoneObj) ==
    /\ phoneObj.k = "object"
    /\ phoneObj.nationalNumber.t = "string"
    /\ StringToNumber(phoneObj.nationalNumber.s) # NaN
    /\ CharAt0(phoneObj.nationalNumber.s) = "0"

\* C10 as stated: a nationalNumber string with leading zeros reaches the
\* oracle with every zero kept (converting what was passed back gives the
\* same string), and the phoneObj is not handed over as the same number as
\* the phoneObj without its first zero.
C10_ZerosKept ==
    ( /\ last.op \in {"formatPhoneNumber", "validatePhoneNumber"}
      /\ ZeroLed(last.args.phoneObj)
      /\ \/ Asked(last.outcome.calls, "format")
         \/ Asked(last.outcome.calls, "isValidNumberForRegion") )
    => LET passed == PassedToOracle(last.outcome.calls)
           given == last.args.phoneObj
           without == [given EXCEPT !.nationalNumber =
                          Str(Tail(given.nationalNumber.s))]
       IN  /\ protoToPhoneObj(OracleNumber(passed)).obj.nationalNumber
                 = given.nationalNumber
           /\ Len(given.nationalNumber.s) >= 2 =>
                 passed # phoneObjToProto(without).num

\* a public operation other than useMeta has just ended
Operated == last.op \notin {"none", "useMeta"}

\* C11 as stated: once loadMetadata has been called, with any bundle, no
\* operation raises MetadataNotLoaded.
C11_ReadyAfterAnyLoad ==
    (loadCalled /\ Operated) => ~Raised(last.outcome, "No metadata loaded")

\* C11 amended: a load with at least one region code makes the registry
\* ready (no later operation raises MetadataNotLoaded); a load with no
\* region code leaves it not ready (every later operation raises it); and
\* no step other than a load changes allRegionCodes or the injected metadata.
C11_LoadMakesReady ==
    [][ /\ last'.op = "useMeta" =>
              /\ allRegionCodes'.defined
              /\ checkMetadataLoaded' <=> allRegionCodes'.codes # {}
        /\ last'.op # "useMeta" =>
              UNCHANGED <<allRegionCodes, leadingZeroCodes, loadCalled>>
        /\ (loadCalled' /\ Operated' /\ allRegionCodes'.codes # {}) =>
              ~Raised(last'.outcome, "No metadata loaded")
        /\ (loadCalled' /\ Operated' /\ allRegionCodes'.codes = {}) =>
              Raised(last'.outcome, "No metadata loaded")
      ]_vars

\* C11 witness: after a load with a region code, an operation went through.
C11_Witness ==
    /\ loadCalled
    /\ allRegionCodes.codes # {}
    /\ last.op = "getSupportedRegions"
    /\ last.outcome.kind = "return"

====
